---- MODULE Spec2Model ----
(***************************************************************************)
(* A model of pydle's BasicClient (src/pydle/client.py): the connection    *)
(* lifecycle and reconnect policy, the read loop, the receive buffer and   *)
(* the per-message dispatch.  One asyncio task is one entry of "tasks";    *)
(* one action is one run of a task between two suspension points.          *)
(***************************************************************************)
EXTENDS Integers, Sequences, FiniteSets, TLC

\* ------------------------------------------------------------------ bounds
\* Tasks of one client alive at the same time on the event loop.
MaxTasks == 3
\* Calls the consumer makes from outside (connect, disconnect, on_data_error).
MaxApiCalls == 2
\* The transport is lost only while the attempt counter is below this.
MaxLosses == 7
\* Bytes a transport delivers to one client of the dispatch model, in all.
MaxWire == 6
\* Bytes of one chunk recv returns in the dispatch model.
MaxChunk == 4

\* ------------------------------------------------------- program constants
\* RECONNECT_MAX_ATTEMPTS = None (unbounded)
None == -1
RECONNECT_DELAYS == <<5, 5, 10, 30, 120, 600>>
DEFAULT_MAX_ATTEMPTS == 3

\* Bytes of the wire: two payload bytes and the two bytes of the terminator.
CR == "CR"
LF == "LF"

VARIABLES
  RECONNECT_ON_ERROR,     \* class attribute, overridable per client
  RECONNECT_MAX_ATTEMPTS, \* class attribute: None or a number
  RECONNECT_DELAYED,      \* class attribute
  connection,             \* self.connection: "none" or "conn" (a Connection object)
  conn_connected,         \* self.connection.connected
  reconnect_attempts,     \* self._reconnect_attempts
  channels,               \* self.channels: name -> [users: set of nicknames]
  users,                  \* self.users: nickname -> record
  receive_buffer,         \* self._receive_buffer: a sequence of bytes
  handler_top_level,      \* self._handler_top_level
  tasks,                  \* the client's suspended asyncio tasks: place -> how many
  apiLeft,                \* calls from outside still allowed (bound)
  ev,                     \* what the last step did (history of one step)
  \* The dispatch model: the clients of one ClientPool on one event loop.
  pool,                   \* client -> [receive_buffer, loop]: ClientPool.clients
  net,                    \* client -> what its transport may still deliver
  ready,                  \* the event loop's queue of tasks ready to run (FIFO)
  delivered,              \* client -> every byte recv has returned (history)
  extracted,              \* client -> messages _parse_message returned (history)
  started,                \* client -> messages whose handler was started (history)
  hung                    \* client -> on_raw tasks suspended in a handler for ever

vars == <<RECONNECT_ON_ERROR, RECONNECT_MAX_ATTEMPTS, RECONNECT_DELAYED,
          connection, conn_connected, reconnect_attempts, channels, users,
          receive_buffer, handler_top_level, tasks, apiLeft, ev,
          pool, net, ready, delivered, extracted, started, hung>>

lifeVars == <<RECONNECT_ON_ERROR, RECONNECT_MAX_ATTEMPTS, RECONNECT_DELAYED,
              connection, conn_connected, reconnect_attempts, channels, users,
              receive_buffer, handler_top_level, tasks, apiLeft, ev>>

poolVars == <<pool, net, ready, delivered, extracted, started, hung>>

\* Where a task is suspended:
\*   loop            handle_forever created by connect(), not yet started
\*   recv, recv2     handle_forever awaiting connection.recv (first read, retry)
\*   recv_cancelled  the same, after a teardown of the connection it reads
\*                   from: the read can only resolve with no data
\*   sleep           on_disconnect awaiting sleep(delay)
\*   connecting      connect(reconnect=True) awaiting self.connection.connect()
\*   connecting_old  the same, the awaited object being no longer self.connection
\*   fresh           connect(reconnect=False) awaiting self.connection.connect()
\*   fresh_old       the same, the awaited object being no longer self.connection
\*   handler         on_raw created by on_data, not yet started
\*   hwait           on_raw suspended inside the handler it awaits
Places == {"loop", "recv", "recv2", "recv_cancelled", "sleep", "connecting",
           "connecting_old", "fresh", "fresh_old", "handler", "hwait"}

NoTasks == [p \in Places |-> 0]

RECURSIVE SumOver(_, _)
SumOver(f, S) ==
  IF S = {} THEN 0
  ELSE LET x == CHOOSE y \in S : TRUE IN f[x] + SumOver(f, S \ {x})

NumTasks(ts) == SumOver(ts, Places)

\* The last step: op names it; arg is the flag a disconnect() that found the
\* client connected was called with; cb is what on_disconnect did; before is
\* the attempt counter when the step began, after the counter when
\* on_disconnect suspended or returned; delay is the delay on_disconnect
\* computed; teardown: the transport was torn down; clean: the transport was
\* down and channels, users and buffer were empty when on_disconnect started;
\* end: how a handle_forever task ended; me: where the running task suspended;
\* raised/caught: a handler raised, on_raw caught it; same: the step changed
\* no field of the client and no task; place: the read a step of the
\* read loop that got data or ran into a timeout had been suspended in;
\* pings: the PING messages the step sent.
NoEv == [op |-> "init", cb |-> "none", arg |-> "none", before |-> -1, after |-> -1,
         delay |-> -1, teardown |-> FALSE, clean |-> FALSE, end |-> "none",
         wasConnected |-> FALSE, dirty |-> FALSE, raised |-> FALSE,
         caught |-> FALSE, me |-> "none", same |-> TRUE, place |-> "none",
         pings |-> 0]

\* The client's fields as one record, so that a call chain composes.  "me" is
\* where the running task suspends next ("none": its coroutine returned).
Cur ==
  [connection |-> connection, conn_connected |-> conn_connected,
   reconnect_attempts |-> reconnect_attempts, channels |-> channels,
   users |-> users, receive_buffer |-> receive_buffer, tasks |-> tasks,
   me |-> "none",
   ev |-> [NoEv EXCEPT !.op = "step",
                       !.before = reconnect_attempts,
                       !.wasConnected = (connection # "none" /\ conn_connected),
                       !.dirty = (channels # <<>> \/ users # <<>>
                                  \/ receive_buffer # <<>>)]]

\* The state in which the task suspended at "place" runs.
Run(place, name) ==
  [Cur EXCEPT !.tasks[place] = @ - 1, !.ev.op = name,
              !.ev.place = IF name \in {"data", "timeout", "retry_failed"}
                           THEN place ELSE "none"]

\* The state in which a call from outside the event loop's tasks runs.
Call(name) == [Cur EXCEPT !.ev.op = name]

Put(ts, place) == IF place = "none" THEN ts ELSE [ts EXCEPT ![place] = @ + 1]

Commit(s) ==
  /\ NumTasks(Put(s.tasks, s.me)) <= MaxTasks
  /\ connection' = s.connection
  /\ conn_connected' = s.conn_connected
  /\ reconnect_attempts' = s.reconnect_attempts
  /\ channels' = s.channels
  /\ users' = s.users
  /\ receive_buffer' = s.receive_buffer
  /\ tasks' = Put(s.tasks, s.me)
  /\ ev' = [s.ev EXCEPT !.me = s.me,
                        !.same = /\ s.connection = connection
                                 /\ s.conn_connected = conn_connected
                                 /\ s.reconnect_attempts = reconnect_attempts
                                 /\ s.channels = channels
                                 /\ s.users = users
                                 /\ s.receive_buffer = receive_buffer
                                 /\ Put(s.tasks, s.me) = tasks]
  /\ UNCHANGED <<RECONNECT_ON_ERROR, RECONNECT_MAX_ATTEMPTS, RECONNECT_DELAYED,
                 handler_top_level>>
  /\ UNCHANGED poolVars

\* BasicClient.connected
Connected(s) == s.connection # "none" /\ s.conn_connected

\* ------------------------------------------------------------ codec (mocks)
\* mock_has_message: b'\r\n' in self._receive_buffer
HasMessage(buf) ==
  \E i \in 1..(Len(buf) - 1) : buf[i] = CR /\ buf[i + 1] = LF

FirstTerminator(buf) ==
  CHOOSE i \in 1..(Len(buf) - 1) :
    /\ buf[i] = CR /\ buf[i + 1] = LF
    /\ \A j \in 1..(i - 1) : ~(buf[j] = CR /\ buf[j + 1] = LF)

\* bytes.strip(): leading and trailing whitespace removed
RECURSIVE Strip(_)
Strip(line) ==
  IF line = <<>> THEN <<>>
  ELSE IF Head(line) \in {CR, LF} THEN Strip(Tail(line))
  ELSE IF line[Len(line)] \in {CR, LF} THEN Strip(SubSeq(line, 1, Len(line) - 1))
  ELSE line

\* MockMessage.parse: json.loads(line) succeeds or ProtocolViolation is
\* raised.  The payload bytes "a" and "h" stand for well-formed JSON, the byte
\* "x" for anything json.loads rejects; the empty line is rejected as well.
Decodable(line) == line # <<>> /\ \A i \in 1..Len(line) : line[i] # "x"

\* mock_parse_message: partition at the first terminator; the buffer keeps
\* what follows the terminator; the stripped line is parsed, and the parse
\* returns a message (ok) or raises.
ParseMessage(buf) ==
  LET i == FirstTerminator(buf)
      line == Strip(SubSeq(buf, 1, i - 1) \o <<CR, LF>>)
  IN [ok |-> Decodable(line),
      message |-> line,
      rest |-> SubSeq(buf, i + 2, Len(buf))]

\* on_data's loop: while self._has_message(): message = self._parse_message().
\* An exception _parse_message raises leaves the loop and on_data.
RECURSIVE Drain(_, _)
Drain(buf, out) ==
  IF HasMessage(buf)
  THEN LET p == ParseMessage(buf)
       IN IF p.ok THEN Drain(p.rest, Append(out, p.message))
          ELSE [buffer |-> p.rest, messages |-> out, raised |-> TRUE]
  ELSE [buffer |-> buf, messages |-> out, raised |-> FALSE]

\* ------------------------------------------------------------ entity store
EmptyStore == <<>>

\* _create_channel
CreateChannel(chs, channel) ==
  [c \in (DOMAIN chs) \cup {channel} |->
     IF c = channel THEN [users |-> {}] ELSE chs[c]]

\* A nickname is a sequence of characters; "." is the domain separator.
IsServerName(nickname) == \E i \in 1..Len(nickname) : nickname[i] = "."

\* _create_user
CreateUser(us, nickname) ==
  IF nickname = <<>> \/ IsServerName(nickname) THEN us
  ELSE [n \in (DOMAIN us) \cup {nickname} |->
          IF n = nickname
          THEN [nickname |-> nickname, username |-> "None",
                realname |-> "None", hostname |-> "None"]
          ELSE us[n]]

\* ------------------------------------------------ transport (Connection)
\* connection.disconnect(): the transport is torn down without suspending;
\* every read pending on it resolves with no data.
ConnDisconnect(s) ==
  [s EXCEPT !.conn_connected = FALSE,
            !.tasks = [@ EXCEPT !["recv"] = 0, !["recv2"] = 0,
                                !["recv_cancelled"] =
                                   @ + s.tasks["recv"] + s.tasks["recv2"]],
            !.ev.teardown = TRUE]

\* connection.Connection(hostname, port): a new, unconnected object replaces
\* self.connection; a connect() still awaited on the old object no longer
\* concerns self.connection.
NewConnection(s) ==
  [s EXCEPT !.connection = "conn",
            !.conn_connected = FALSE,
            !.tasks = [@ EXCEPT !["connecting"] = 0,
                                !["connecting_old"] = @ + s.tasks["connecting"],
                                !["fresh"] = 0,
                                !["fresh_old"] = @ + s.tasks["fresh"]]]

\* ------------------------------------------------------------- lifecycle
\* _reset_attributes
ResetAttributes(s) ==
  [s EXCEPT !.channels = EmptyStore,
            !.users = EmptyStore,
            !.receive_buffer = <<>>]

\* _reset_connection_attributes
ResetConnectionAttributes(s) ==
  [s EXCEPT !.connection = "none",
            !.conn_connected = FALSE,
            !.reconnect_attempts = 0]

\* A delay table read round and round instead of held at its last entry.
ReconnectDelayWrapped(s) ==
  IF RECONNECT_ON_ERROR /\ RECONNECT_DELAYED
  THEN RECONNECT_DELAYS[(s.reconnect_attempts % Len(RECONNECT_DELAYS)) + 1]
  ELSE 0

\* _reconnect_delay
ReconnectDelay(s) ==
  IF RECONNECT_ON_ERROR /\ RECONNECT_DELAYED
  THEN IF s.reconnect_attempts >= Len(RECONNECT_DELAYS)
       THEN RECONNECT_DELAYS[Len(RECONNECT_DELAYS)]
       ELSE RECONNECT_DELAYS[s.reconnect_attempts + 1]
  ELSE 0

\* on_disconnect is entered: what it finds (the transport down, the store
\* and the buffer empty) is recorded for the step.
EnterCallback(s) ==
  [s EXCEPT !.ev.clean = /\ ~Connected(s)
                         /\ s.channels = EmptyStore
                         /\ s.users = EmptyStore
                         /\ s.receive_buffer = <<>>]

\* on_disconnect: delay = self._reconnect_delay(); self._reconnect_attempts
\* += 1; await sleep(delay).  The task suspends in sleep; connect(reconnect=
\* True) follows when it wakes.
StartReconnect(s) ==
  LET delay == ReconnectDelay(s)
  IN [s EXCEPT !.reconnect_attempts = s.reconnect_attempts + 1,
               !.me = "sleep",
               !.ev.cb = "reconnecting",
               !.ev.delay = delay,
               !.ev.after = s.reconnect_attempts + 1]

\* on_disconnect: 'Unexpected disconnect. Giving up.'
GiveUp(s) == [s EXCEPT !.ev.cb = "giveup", !.ev.after = s.reconnect_attempts]

\* on_disconnect: expected, nothing to do
NoReconnect(s) == [s EXCEPT !.ev.cb = "expected", !.ev.after = s.reconnect_attempts]

\* A policy that still reconnects when the counter has reached the maximum.
OnDisconnectInclusive(s, expected) ==
  LET s0 == EnterCallback(s)
  IN IF ~expected
     THEN IF RECONNECT_ON_ERROR
             /\ (RECONNECT_MAX_ATTEMPTS = None
                 \/ s0.reconnect_attempts <= RECONNECT_MAX_ATTEMPTS)
          THEN StartReconnect(s0)
          ELSE GiveUp(s0)
     ELSE NoReconnect(s0)

\* A policy that does not look at the flag it is given.
OnDisconnectAnyCause(s, expected) ==
  LET s0 == EnterCallback(s)
  IN IF RECONNECT_ON_ERROR
        /\ (RECONNECT_MAX_ATTEMPTS = None
            \/ s0.reconnect_attempts < RECONNECT_MAX_ATTEMPTS)
     THEN StartReconnect(s0)
     ELSE GiveUp(s0)

\* on_disconnect, up to its first suspension: await sleep(delay)
OnDisconnect(s, expected) ==
  LET s0 == EnterCallback(s)
  IN IF ~expected
     THEN IF RECONNECT_ON_ERROR
             /\ (RECONNECT_MAX_ATTEMPTS = None
                 \/ s0.reconnect_attempts < RECONNECT_MAX_ATTEMPTS)
          THEN StartReconnect(s0)
          ELSE GiveUp(s0)
     ELSE NoReconnect(s0)

\* A teardown that leaves channels, users and buffer as they are.
DisconnectInnerNoReset(s, expected) ==
  OnDisconnect(ConnDisconnect(s), expected)

\* _disconnect
DisconnectInner(s, expected) ==
  OnDisconnect(ResetAttributes(ConnDisconnect(s)), expected)

\* disconnect
Disconnect(s, expected) ==
  IF Connected(s)
  THEN DisconnectInner([s EXCEPT !.ev.arg = IF expected THEN "expected"
                                           ELSE "unexpected"], expected)
  ELSE s

\* _connect, up to its suspension: await self.connection.connect()
ConnectInner(s, reconnect) ==
  LET s1 == IF ~reconnect \/ s.connection = "none" THEN NewConnection(s) ELSE s
  IN [s1 EXCEPT !.me = IF reconnect THEN "connecting" ELSE "fresh"]

\* connect, up to the suspension in _connect
Connect(s, reconnect) ==
  LET s1 == IF Connected(s) THEN Disconnect(s, TRUE) ELSE s
      s2 == IF ~reconnect THEN ResetConnectionAttributes(s1) ELSE s1
  IN ConnectInner(s2, reconnect)

\* An on_connect that leaves the counter alone.
OnConnectKeepsCounter(s) == s

\* on_connect
OnConnect(s) == [s EXCEPT !.reconnect_attempts = 0]

\* ------------------------------------------------------------- dispatch
\* on_data: self._receive_buffer += data, then every complete message is
\* extracted from the buffer.
Extract(buf, data) == Drain(buf \o data, <<>>)

\* on_data: asyncio.create_task(self.on_raw(message)) per extracted message;
\* an exception of the codec propagates to the caller.
OnData(s, data) ==
  LET d == Extract(s.receive_buffer, data)
  IN [s EXCEPT !.receive_buffer = d.buffer,
               !.tasks["handler"] = @ + Len(d.messages),
               !.ev.end = IF d.raised THEN "codec" ELSE @]

\* A read loop that leaves on no data without telling anyone.
HandleNoDataSilently(s) == s

\* handle_forever: "if not data: if self.connected: disconnect(False); break"
HandleNoData(s) ==
  IF Connected(s) THEN Disconnect(s, FALSE) ELSE s

\* handle_forever: the loop condition, "while self.connected", then recv
LoopTop(s) ==
  IF Connected(s) THEN [s EXCEPT !.me = "recv"] ELSE [s EXCEPT !.ev.end = "exit"]

\* Chunks the transport delivers to the lifecycle model.
Chunks == {<<"a">>, <<"a", CR, LF>>, <<"x", CR, LF>>}

\* What a handler (consumer or feature code) does to the entity store.
HandlerEffect(s, effect) ==
  IF effect = "join"
  THEN [s EXCEPT !.users = CreateUser(s.users, <<"n">>),
                 !.channels = CreateChannel(s.channels, "#c")]
  ELSE s

\* An on_raw without the try/except, whose failure is reported like a socket
\* error: on_data_error, that is disconnect(expected=False).
OnRawEscalating(s, effect, outcome) ==
  LET s1 == HandlerEffect(s, effect)
  IN CASE outcome = "suspend" -> [s1 EXCEPT !.me = "hwait"]
       [] outcome = "raise" -> Disconnect(s1, FALSE)
       [] OTHER -> s1

\* on_raw: the handler is awaited inside try/except; a failure it raises is
\* caught and logged, and on_raw returns.
OnRaw(s, effect, outcome) ==
  LET s1 == HandlerEffect(s, effect)
  IN CASE outcome = "suspend" -> [s1 EXCEPT !.me = "hwait"]
       [] outcome = "raise" -> [s1 EXCEPT !.ev.caught = TRUE]
       [] OTHER -> s1

\* --------------------------------------------------------------- actions
\* The class attributes a client is configured with.
Configs ==
  { <<TRUE, TRUE, DEFAULT_MAX_ATTEMPTS>>, <<TRUE, TRUE, None>>, <<TRUE, TRUE, 2>>,
    <<TRUE, FALSE, DEFAULT_MAX_ATTEMPTS>>, <<FALSE, TRUE, DEFAULT_MAX_ATTEMPTS>> }

Init ==
  /\ \E cfg \in Configs :
       /\ RECONNECT_ON_ERROR = cfg[1]
       /\ RECONNECT_DELAYED = cfg[2]
       /\ RECONNECT_MAX_ATTEMPTS = cfg[3]
  /\ connection = "none"
  /\ conn_connected = FALSE
  /\ reconnect_attempts = 0
  /\ channels = EmptyStore
  /\ users = EmptyStore
  /\ receive_buffer = <<>>
  /\ handler_top_level = FALSE
  /\ tasks = NoTasks
  /\ apiLeft = MaxApiCalls
  /\ ev = NoEv
  /\ pool = <<>>
  /\ net = <<>>
  /\ ready = <<>>
  /\ delivered = <<>>
  /\ extracted = <<>>
  /\ started = <<>>
  /\ hung = <<>>

\* The consumer calls connect(hostname, port) (reconnect=False).
UserConnect ==
  /\ apiLeft > 0
  /\ apiLeft' = apiLeft - 1
  /\ Commit(Connect(Call("connect"), FALSE))

\* The consumer calls disconnect() (expected=True).
UserDisconnect ==
  /\ apiLeft > 0
  /\ apiLeft' = apiLeft - 1
  /\ Commit(Disconnect(Call("disconnect"), TRUE))

\* on_data_error(exception): disconnect(expected=False)
OnDataError ==
  /\ apiLeft > 0
  /\ reconnect_attempts < MaxLosses
  /\ apiLeft' = apiLeft - 1
  /\ Commit(Disconnect(Call("data_error"), FALSE))

\* The protocol layer reports a completed registration: on_connect().
OnConnectCallback ==
  /\ Connected(Cur)
  /\ UNCHANGED apiLeft
  /\ Commit(OnConnect(Call("on_connect")))

\* handle_forever starts.
LoopStart ==
  /\ tasks["loop"] > 0
  /\ UNCHANGED apiLeft
  /\ Commit(LoopTop(Run("loop", "loop_start")))

\* recv returns bytes: on_data, then the loop condition again; an exception
\* that leaves on_data leaves handle_forever too, and ends the task.
RecvData(place) ==
  /\ tasks[place] > 0
  /\ UNCHANGED apiLeft
  /\ \E data \in Chunks :
       /\ Len(Extract(receive_buffer, data).buffer) <= 1
       /\ LET s1 == OnData(Run(place, "data"), data)
          IN Commit(IF s1.ev.end = "codec" THEN s1 ELSE LoopTop(s1))

\* recv returns no bytes because the peer closed the connection.
RecvClosed(place) ==
  /\ tasks[place] > 0
  /\ reconnect_attempts < MaxLosses
  /\ UNCHANGED apiLeft
  /\ Commit(HandleNoData([Run(place, "closed") EXCEPT !.ev.end = "lost"]))

\* recv returns no bytes because a local teardown cancelled the read.
RecvCancelled ==
  /\ tasks["recv_cancelled"] > 0
  /\ reconnect_attempts < MaxLosses
  /\ UNCHANGED apiLeft
  /\ Commit(HandleNoData([Run("recv_cancelled", "cancelled") EXCEPT
                            !.ev.end = "cancelled"]))

\* The first recv times out: PING is sent and the read is retried.
RecvTimeout ==
  /\ tasks["recv"] > 0
  /\ UNCHANGED apiLeft
  /\ Commit([Run("recv", "timeout") EXCEPT !.me = "recv2", !.ev.pings = 1])

\* The retry fails: sending PING raises ConnectionResetError, or the second
\* recv times out or raises ConnectionResetError; data = None.
RetryFails(place) ==
  /\ tasks[place] > 0
  /\ reconnect_attempts < MaxLosses
  /\ UNCHANGED apiLeft
  /\ Commit(HandleNoData([Run(place, "retry_failed") EXCEPT
                            !.ev.end = "lost",
                            !.ev.pings = IF place = "recv" THEN 1 ELSE 0]))

\* The first recv raises ConnectionResetError: nothing catches it, and the
\* exception ends the handle_forever task.
RecvReset ==
  /\ tasks["recv"] > 0
  /\ reconnect_attempts < MaxLosses
  /\ UNCHANGED apiLeft
  /\ Commit([Run("recv", "reset") EXCEPT !.ev.end = "raised"])

\* sleep(delay) is over: connect(reconnect=True).
Wake ==
  /\ tasks["sleep"] > 0
  /\ UNCHANGED apiLeft
  /\ Commit(Connect(Run("sleep", "wake"), TRUE))

\* connection.connect() completes: connect() creates the handle_forever task
\* and returns.
ConnectOk(place) ==
  /\ tasks[place] > 0
  /\ UNCHANGED apiLeft
  /\ Commit([Run(place, CASE place = "fresh" -> "connected_fresh"
                           [] place = "connecting" -> "connected"
                           [] OTHER -> "connected_old") EXCEPT
               !.conn_connected = IF place \in {"connecting", "fresh"} THEN TRUE ELSE @,
               !.tasks["loop"] = @ + 1])

\* connection.connect() raises: the exception ends the task that awaited it.
ConnectFail(place) ==
  /\ tasks[place] > 0
  /\ UNCHANGED apiLeft
  /\ Commit(Run(place, "connect_failed"))

\* An on_raw task runs: from its start, or resumed inside its handler.
HandlerRun(place) ==
  /\ tasks[place] > 0
  /\ UNCHANGED apiLeft
  /\ \E effect \in {"none", "join"}, outcome \in {"finish", "raise", "suspend"} :
       Commit(OnRaw([Run(place, "handler") EXCEPT !.ev.raised = (outcome = "raise")],
                    effect, outcome))

Next ==
  \/ UserConnect
  \/ UserDisconnect
  \/ OnDataError
  \/ OnConnectCallback
  \/ LoopStart
  \/ \E place \in {"recv", "recv2"} : RecvData(place)
  \/ \E place \in {"recv", "recv2"} : RecvClosed(place)
  \/ RecvCancelled
  \/ RecvTimeout
  \/ \E place \in {"recv", "recv2"} : RetryFails(place)
  \/ RecvReset
  \/ Wake
  \/ \E place \in {"connecting", "connecting_old", "fresh", "fresh_old"} : ConnectOk(place)
  \/ \E place \in {"connecting", "connecting_old", "fresh", "fresh_old"} : ConnectFail(place)
  \/ \E place \in {"handler", "hwait"} : HandlerRun(place)

Spec == Init /\ [][Next]_vars

\* ----------------------------------------------------- the dispatch model
\* Bytes on the wire: a payload byte the codec accepts, one it rejects, and
\* the terminator's bytes.
WireBytes == {"a", "x", CR, LF}

SeqsUpTo(S, n) == UNION {[1..k -> S] : k \in 1..n}

\* A handler that never completes: the consumer's handler of a message that
\* starts with "h" awaits something that never happens.
HandlerHangs(message) == message # <<>> /\ message[1] = "h"

ReadTask(c, data) == [kind |-> "read", client |-> c, data |-> data]
OnRawTask(c, message) == [kind |-> "on_raw", client |-> c, data |-> message]

\* An on_data that awaits each handler in place ("await self.on_raw(message)")
\* instead of creating a task for it; d is [pool, ready, started, hung].
RECURSIVE DispatchAwait(_, _, _)
DispatchAwait(d, c, messages) ==
  IF messages = <<>> THEN d
  ELSE LET d1 == [d EXCEPT !.started[c] = Append(@, Head(messages))]
       IN IF HandlerHangs(Head(messages))
          THEN [d1 EXCEPT !.hung[c] = @ + 1, !.pool[c].loop = "blocked"]
          ELSE DispatchAwait(d1, c, Tail(messages))

\* on_data: asyncio.create_task(self.on_raw(message)) for each message, in
\* the order the messages were extracted; d is [pool, ready, started, hung].
RECURSIVE Dispatch(_, _, _)
Dispatch(d, c, messages) ==
  IF messages = <<>> THEN d
  ELSE Dispatch([d EXCEPT !.ready = Append(@, OnRawTask(c, Head(messages)))],
                c, Tail(messages))

ConnectedDefaults ==
  /\ RECONNECT_ON_ERROR = TRUE
  /\ RECONNECT_MAX_ATTEMPTS = DEFAULT_MAX_ATTEMPTS
  /\ RECONNECT_DELAYED = TRUE
  /\ connection = "conn"
  /\ conn_connected = TRUE
  /\ reconnect_attempts = 0
  /\ channels = EmptyStore
  /\ users = EmptyStore
  /\ receive_buffer = <<>>
  /\ handler_top_level = FALSE
  /\ tasks = NoTasks
  /\ apiLeft = 0
  /\ ev = NoEv

\* Clients whose connect() has returned and whose read loops await recv.
InitClients(clients) ==
  /\ ConnectedDefaults
  /\ pool = [c \in clients |-> [receive_buffer |-> <<>>, loop |-> "recv"]]
  /\ ready = <<>>
  /\ delivered = [c \in clients |-> <<>>]
  /\ extracted = [c \in clients |-> <<>>]
  /\ started = [c \in clients |-> <<>>]
  /\ hung = [c \in clients |-> 0]

\* One client; its transport delivers any bytes in any chunks.
InitDispatch ==
  /\ InitClients({1})
  /\ net = [c \in {1} |-> [chunks |-> SeqsUpTo(WireBytes, MaxChunk),
                          limit |-> MaxWire]]

\* Two pooled clients on the one event loop that serves the pool, each after
\* its connect() returned; the transports deliver whole messages, whose
\* handlers hang or do not.
InitPool ==
  /\ InitClients({1, 2})
  /\ net = [c \in {1, 2} |-> [chunks |-> {<<"h", CR, LF>>, <<"a", CR, LF>>},
                             limit |-> MaxWire]]

\* connection.recv resolves with bytes: the handle_forever task is ready.
Deliver(c) ==
  /\ pool[c].loop = "recv"
  /\ \E data \in net[c].chunks :
       /\ Len(delivered[c]) + Len(data) <= net[c].limit
       /\ ready' = Append(ready, ReadTask(c, data))
  /\ pool' = [pool EXCEPT ![c].loop = "ready"]
  /\ UNCHANGED <<net, delivered, extracted, started, hung>>
  /\ UNCHANGED lifeVars

\* The event loop runs handle_forever: on_data(data), then recv again; an
\* exception that leaves on_data ends the handle_forever task.
RunRead ==
  /\ ready # <<>>
  /\ Head(ready).kind = "read"
  /\ LET c == Head(ready).client
         data == Head(ready).data
         x == Extract(pool[c].receive_buffer, data)
         d == Dispatch([pool |-> [pool EXCEPT ![c].receive_buffer = x.buffer,
                                              ![c].loop = IF x.raised THEN "dead"
                                                          ELSE "recv"],
                        ready |-> Tail(ready), started |-> started, hung |-> hung],
                       c, x.messages)
     IN /\ pool' = d.pool
        /\ ready' = d.ready
        /\ started' = d.started
        /\ hung' = d.hung
        /\ delivered' = [delivered EXCEPT ![c] = @ \o data]
        /\ extracted' = [extracted EXCEPT ![c] = @ \o x.messages]
  /\ UNCHANGED net
  /\ UNCHANGED lifeVars

\* The event loop runs an on_raw task: the handler starts; it returns (or
\* raises, which on_raw catches), or it never completes.
RunOnRaw ==
  /\ ready # <<>>
  /\ Head(ready).kind = "on_raw"
  /\ LET c == Head(ready).client
         message == Head(ready).data
     IN /\ started' = [started EXCEPT ![c] = Append(@, message)]
        /\ hung' = [hung EXCEPT ![c] = IF HandlerHangs(message) THEN @ + 1 ELSE @]
  /\ ready' = Tail(ready)
  /\ UNCHANGED <<pool, net, delivered, extracted>>
  /\ UNCHANGED lifeVars

RunNext == RunRead \/ RunOnRaw

NextDispatch ==
  \/ \E c \in DOMAIN pool : Deliver(c)
  \/ RunRead
  \/ RunOnRaw

SpecDispatch == InitDispatch /\ [][NextDispatch]_vars

\* asyncio runs every ready task: the queue is served first in, first out.
SpecPool == InitPool /\ [][NextDispatch]_vars /\ WF_vars(RunNext)

\* ------------------------------------------------- the entity store model
\* The store a call works on: self.users, self.channels, and the exception
\* the call ended with ("none": it returned).
Store(us, chs) == [users |-> us, channels |-> chs, raised |-> "none"]

Raise(st, exception) == [st EXCEPT !.raised = exception]

\* del d[k]
Without(d, k) == [x \in (DOMAIN d) \ {k} |-> d[x]]

\* any(nickname in ch['users'] for ch in self.channels.values())
InSomeChannel(chs, nickname) == \E c \in DOMAIN chs : nickname \in chs[c].users

\* channel=None
NoChannel == ""

\* A _destroy_user that deletes the record whatever channels are left.
DestroyUserEverywhere(st, nickname, channel) ==
  IF channel # NoChannel /\ channel \notin DOMAIN st.channels
  THEN Raise(st, "KeyError")
  ELSE LET chs == [c \in DOMAIN st.channels |->
                     IF channel = NoChannel \/ c = channel
                     THEN [st.channels[c] EXCEPT !.users = @ \ {nickname}]
                     ELSE st.channels[c]]
           st1 == [st EXCEPT !.channels = chs]
       IN IF nickname \in DOMAIN st.users
          THEN [st1 EXCEPT !.users = Without(@, nickname)]
          ELSE Raise(st1, "KeyError")

\* _destroy_user: self.channels[channel] raises KeyError for an unknown
\* channel, del self.users[nickname] for a nickname without a record.
DestroyUser(st, nickname, channel) ==
  IF channel # NoChannel /\ channel \notin DOMAIN st.channels
  THEN Raise(st, "KeyError")
  ELSE LET chs == [c \in DOMAIN st.channels |->
                     IF channel = NoChannel \/ c = channel
                     THEN [st.channels[c] EXCEPT !.users = @ \ {nickname}]
                     ELSE st.channels[c]]
           st1 == [st EXCEPT !.channels = chs]
       IN IF channel = NoChannel \/ ~InSomeChannel(chs, nickname)
          THEN IF nickname \in DOMAIN st.users
               THEN [st1 EXCEPT !.users = Without(@, nickname)]
               ELSE Raise(st1, "KeyError")
          ELSE st1

\* _destroy_channel's loop, "for user in set(self.channels[channel]['users'])":
\* the stores it can end in, one per order in which the snapshot is iterated;
\* an exception of _destroy_user ends the loop.
RECURSIVE DestroyMembers(_, _, _)
DestroyMembers(st, todo, channel) ==
  IF todo = {} THEN {st}
  ELSE UNION { LET st1 == DestroyUser(st, u, channel)
               IN IF st1.raised # "none" THEN {st1}
                  ELSE DestroyMembers(st1, todo \ {u}, channel) : u \in todo }

\* _destroy_channel: the stores it can end in
DestroyChannel(st, channel) ==
  IF channel \notin DOMAIN st.channels
  THEN {Raise(st, "KeyError")}
  ELSE { IF st1.raised # "none" THEN st1
         ELSE [st1 EXCEPT !.channels = Without(@, channel)] :
         st1 \in DestroyMembers(st, st.channels[channel].users, channel) }

\* dict.update(metadata)
Update(record, metadata) ==
  [f \in (DOMAIN record) \cup (DOMAIN metadata) |->
     IF f \in DOMAIN metadata THEN metadata[f] ELSE record[f]]

\* _sync_user: "await self._create_user(nick)" calls _create_user, which is
\* not a coroutine function and returns None; awaiting None raises TypeError.
SyncUser(st, nick, metadata) ==
  IF nick \notin DOMAIN st.users
  THEN Raise([st EXCEPT !.users = CreateUser(@, nick)], "TypeError")
  ELSE [st EXCEPT !.users[nick] = Update(@, metadata)]

\* _rename_user: self.users[new] and self.users[user] are the same dict until
\* "del self.users[user]"; the else branch awaits _create_user's None.
RenameUser(st, user, new) ==
  IF user \in DOMAIN st.users
  THEN LET moved == [st.users[user] EXCEPT !.nickname = new]
           us1 == [n \in (DOMAIN st.users) \cup {new} |->
                     IF n = new THEN moved ELSE st.users[n]]
           chs == [c \in DOMAIN st.channels |->
                     IF user \in st.channels[c].users
                     THEN [st.channels[c] EXCEPT !.users = (@ \ {user}) \cup {new}]
                     ELSE st.channels[c]]
       IN [st EXCEPT !.users = Without(us1, user), !.channels = chs]
  ELSE Raise([st EXCEPT !.users = CreateUser(@, new)], "TypeError")

\* A channel-join event as the protocol layer handles it: the channel is
\* created on the first event that names it, the user on the first reference,
\* and the nickname is added to the channel's membership set.
Join(st, nickname, channel) ==
  LET chs == IF channel \in DOMAIN st.channels THEN st.channels
             ELSE CreateChannel(st.channels, channel)
      us == IF nickname \in DOMAIN st.users THEN st.users
            ELSE CreateUser(st.users, nickname)
  IN [st EXCEPT !.users = us,
                !.channels = [chs EXCEPT ![channel].users = @ \cup {nickname}]]

\* Arguments of the store's operations.
NickNames == {<<"n">>, <<"m">>, <<"s", ".">>, <<>>}
ValidNicks == {n \in NickNames : n # <<>> /\ ~IsServerName(n)}
ChannelNames == {"#c", "#d"}
RenameNicks == {n \in NickNames : n # <<>>}
Metadata == { [username |-> "u"], [hostname |-> "h"] }

storeRest == <<RECONNECT_ON_ERROR, RECONNECT_MAX_ATTEMPTS, RECONNECT_DELAYED,
               connection, conn_connected, reconnect_attempts, receive_buffer,
               handler_top_level, tasks, apiLeft>>

\* The last call on the store: op names it, nick and arg are its arguments,
\* raised the exception it ended with; where the history is tracked, attached
\* holds the nicknames that joined a channel since their record was created.
StoreEv(op, nick, arg, st) ==
  [op |-> op, nick |-> nick, arg |-> arg, raised |-> st.raised,
   track |-> ev.track,
   attached |-> IF ~ev.track THEN {}
                ELSE IF op = "join" THEN ev.attached \cup {nick}
                ELSE ev.attached \cap (DOMAIN st.users)]

StoreCommit(op, nick, arg, st) ==
  /\ users' = st.users
  /\ channels' = st.channels
  /\ ev' = StoreEv(op, nick, arg, st)
  /\ UNCHANGED storeRest
  /\ UNCHANGED poolVars

CurStore == Store(users, channels)

\* A client with an empty store.
InitStoreWith(track) ==
  /\ RECONNECT_ON_ERROR = TRUE
  /\ RECONNECT_MAX_ATTEMPTS = DEFAULT_MAX_ATTEMPTS
  /\ RECONNECT_DELAYED = TRUE
  /\ connection = "conn"
  /\ conn_connected = TRUE
  /\ reconnect_attempts = 0
  /\ receive_buffer = <<>>
  /\ handler_top_level = FALSE
  /\ tasks = NoTasks
  /\ apiLeft = 0
  /\ channels = EmptyStore
  /\ users = EmptyStore
  /\ ev = [op |-> "init", nick |-> <<>>, arg |-> "", raised |-> "none",
           track |-> track, attached |-> {}]
  /\ pool = <<>>
  /\ net = <<>>
  /\ ready = <<>>
  /\ delivered = <<>>
  /\ extracted = <<>>
  /\ started = <<>>
  /\ hung = <<>>

InitMembership == InitStoreWith(TRUE)

InitStore == InitStoreWith(FALSE)

DoCreateUser ==
  \E n \in NickNames :
    StoreCommit("create_user", n, "", [CurStore EXCEPT !.users = CreateUser(@, n)])

DoCreateChannel ==
  \E c \in ChannelNames :
    StoreCommit("create_channel", <<>>, c,
                [CurStore EXCEPT !.channels = CreateChannel(@, c)])

DoJoin ==
  \E n \in ValidNicks, c \in ChannelNames :
    StoreCommit("join", n, c, Join(CurStore, n, c))

DoDestroyUser ==
  \E n \in NickNames, c \in ChannelNames :
    StoreCommit("destroy_user", n, c, DestroyUser(CurStore, n, c))

DoDestroyUserEverywhere ==
  \E n \in NickNames :
    StoreCommit("destroy_user_all", n, NoChannel, DestroyUser(CurStore, n, NoChannel))

DoDestroyChannel ==
  \E c \in ChannelNames : \E st \in DestroyChannel(CurStore, c) :
    StoreCommit("destroy_channel", <<>>, c, st)

DoSyncUser ==
  \E n \in NickNames, md \in Metadata :
    StoreCommit("sync_user", n, md, SyncUser(CurStore, n, md))

DoRenameUser ==
  \E old \in RenameNicks, new \in RenameNicks :
    StoreCommit("rename_user", old, new, RenameUser(CurStore, old, new))

\* create_user and channel-join events, and destroy_user(nick, channel) calls
NextMembership ==
  \/ DoCreateUser
  \/ DoJoin
  \/ DoDestroyUser

SpecMembership == InitMembership /\ [][NextMembership]_vars

\* every operation of the store, with any arguments
NextStore ==
  \/ DoCreateUser
  \/ DoCreateChannel
  \/ DoJoin
  \/ DoDestroyUser
  \/ DoDestroyUserEverywhere
  \/ DoDestroyChannel
  \/ DoSyncUser
  \/ DoRenameUser

SpecStore == InitStore /\ [][NextStore]_vars

\* ------------------------------------------------------ the ClientPool model
\* Clients handed to a pool, and the connect arguments they are added with.
PoolClients == {1, 2, 3}
ConnectArgs == {"a", "b"}

\* ClientPool.__init__(clients): self.clients = set(clients or []);
\* self.connect_args = {}
PoolNew(clients) == [clients |-> clients, connect_args |-> <<>>]

\* ClientPool.connect(client, *args, **kwargs)
PoolConnect(p, client, args) ==
  [clients |-> p.clients \cup {client},
   connect_args |-> [c \in (DOMAIN p.connect_args) \cup {client} |->
                       IF c = client THEN args ELSE p.connect_args[c]],
   raised |-> "none", scheduled |-> FALSE]

\* ClientPool.disconnect(client): set.remove and del raise KeyError for a
\* missing client; asyncio.run_coroutine_threadsafe is called without its
\* loop argument and raises TypeError, so nothing is scheduled.
PoolDisconnect(p, client) ==
  IF client \notin p.clients
  THEN [clients |-> p.clients, connect_args |-> p.connect_args,
        raised |-> "KeyError", scheduled |-> FALSE]
  ELSE IF client \notin DOMAIN p.connect_args
  THEN [clients |-> p.clients \ {client}, connect_args |-> p.connect_args,
        raised |-> "KeyError", scheduled |-> FALSE]
  ELSE [clients |-> p.clients \ {client},
        connect_args |-> Without(p.connect_args, client),
        raised |-> "TypeError", scheduled |-> FALSE]

\* ClientPool.handle_forever: self.connect_args[client] raises KeyError for a
\* client without stored arguments; otherwise asyncio.run is given the future
\* gather() returned, not a coroutine, and raises ValueError.  No client is
\* connected either way, and the pool is unchanged.
PoolHandleForever(p) ==
  [clients |-> p.clients, connect_args |-> p.connect_args,
   raised |-> IF p.clients \subseteq DOMAIN p.connect_args
              THEN "ValueError" ELSE "KeyError",
   scheduled |-> FALSE]

poolRest == <<RECONNECT_ON_ERROR, RECONNECT_MAX_ATTEMPTS, RECONNECT_DELAYED,
              connection, conn_connected, reconnect_attempts, channels, users,
              receive_buffer, handler_top_level, tasks, apiLeft,
              net, ready, delivered, extracted, started, hung>>

\* The last call on the pool: pooled tells whether the client was in the
\* pool before the call, scheduled whether a disconnect was scheduled.
PoolCommit(op, client, r) ==
  /\ pool' = [clients |-> r.clients, connect_args |-> r.connect_args]
  /\ ev' = [op |-> op, client |-> client, pooled |-> client \in pool.clients,
            raised |-> r.raised, scheduled |-> r.scheduled]
  /\ UNCHANGED poolRest

\* A pool after construction, with or without an initial client collection.
InitClientPool ==
  /\ RECONNECT_ON_ERROR = TRUE
  /\ RECONNECT_MAX_ATTEMPTS = DEFAULT_MAX_ATTEMPTS
  /\ RECONNECT_DELAYED = TRUE
  /\ connection = "none"
  /\ conn_connected = FALSE
  /\ reconnect_attempts = 0
  /\ channels = EmptyStore
  /\ users = EmptyStore
  /\ receive_buffer = <<>>
  /\ handler_top_level = FALSE
  /\ tasks = NoTasks
  /\ apiLeft = 0
  /\ \E initial \in SUBSET PoolClients : pool = PoolNew(initial)
  /\ ev = [op |-> "init", client |-> 0, pooled |-> FALSE, raised |-> "none",
           scheduled |-> FALSE]
  /\ net = <<>>
  /\ ready = <<>>
  /\ delivered = <<>>
  /\ extracted = <<>>
  /\ started = <<>>
  /\ hung = <<>>

DoPoolConnect ==
  \E c \in PoolClients, args \in ConnectArgs :
    PoolCommit("connect", c, PoolConnect(pool, c, args))

DoPoolDisconnect ==
  \E c \in PoolClients : PoolCommit("disconnect", c, PoolDisconnect(pool, c))

DoPoolHandleForever == PoolCommit("handle_forever", 0, PoolHandleForever(pool))

NextClientPool ==
  \/ DoPoolConnect
  \/ DoPoolDisconnect
  \/ DoPoolHandleForever

SpecClientPool == InitClientPool /\ [][NextClientPool]_vars

\* ------------------------------------------- the handler resolution model
\* One client whose class defines some on_raw_* handlers, the on_raw tasks
\* on_data created for incoming messages, and another task of the client that
\* looks attributes up.  A place of this model is what is left of a task:
\* <<"on_raw", command>> for an on_raw task not yet started, or the
\* instructions of a handler body that follow the await it is suspended in.

\* Attribute names, as the prefix __getattr__ tests and the rest.
OnUnknown == <<"on_unknown">>
Ignored == <<"_ignored">>
AttributeError == <<"AttributeError">>

\* message.command of the incoming messages, and cmd.lower().
Commands == {"PING", "ping", "JOIN", "Part", "KICK", "NOPE", "nope"}
Lower(cmd) ==
  CASE cmd \in {"PING", "ping"} -> "ping"
    [] cmd = "JOIN" -> "join"
    [] cmd = "Part" -> "part"
    [] cmd = "KICK" -> "kick"
    [] cmd \in {"NOPE", "nope"} -> "nope"

\* on_raw: method = 'on_raw_' + cmd.lower()
Method(cmd) == <<"on_raw_", Lower(cmd)>>

\* The handlers the client's class defines, with the bodies they run:
\* "await" suspends the task, "delegate" looks the handler of a layer below
\* up on self and awaits what it gets, "raise" raises.
HandlerBodies ==
  [m \in {Method("ping"), Method("JOIN"), Method("Part"), Method("KICK")} |->
     CASE m = Method("ping") -> <<"await">>
       [] m = Method("JOIN") -> <<"await", "delegate", "await">>
       [] m = Method("Part") -> <<"delegate", "await", "delegate">>
       [] m = Method("KICK") -> <<"await", "raise">>]

\* The name a delegating handler looks up: no class defines it.
Delegated == <<"on_raw_", "motd">>

\* __getattr__, which Python calls when the normal lookup found nothing.
GetAttrFallback(flag, attr) ==
  IF attr[1] = "on_raw_"
  THEN IF flag THEN OnUnknown ELSE Ignored
  ELSE AttributeError

\* getattr(self, attr): the attribute the class defines, or the fallback.
GetAttr(flag, attr) ==
  IF attr \in DOMAIN HandlerBodies \cup {OnUnknown, Ignored} THEN attr
  ELSE GetAttrFallback(flag, attr)

\* A top-level resolution that never clears the flag.
TopLevelLookupSticky(flag, method) ==
  [flag |-> TRUE, handler |-> GetAttr(TRUE, method)]

\* on_raw: "self._handler_top_level = True; handler = getattr(self, method);
\* self._handler_top_level = False", with no await in between.
TopLevelLookup(flag, method) ==
  [flag |-> FALSE, handler |-> GetAttr(TRUE, method)]

\* The body the resolved handler runs: on_unknown logs, _ignored does nothing.
BodyOf(handler) ==
  IF handler \in DOMAIN HandlerBodies THEN HandlerBodies[handler] ELSE <<>>

\* The running task executes todo up to its next await, its end or a raise
\* (which on_raw's bare except catches): rest is what it has left when it
\* suspends, nested what its lookups returned, flags the flag as each
\* instruction found it.
RECURSIVE RunBody(_, _)
RunBody(flag, todo) ==
  IF todo = <<>>
  THEN [suspended |-> FALSE, rest |-> <<>>, nested |-> {}, flags |-> {},
        raised |-> FALSE]
  ELSE LET r == RunBody(flag, Tail(todo))
       IN CASE Head(todo) = "await" ->
                 [suspended |-> TRUE, rest |-> Tail(todo), nested |-> {},
                  flags |-> {flag}, raised |-> FALSE]
            [] Head(todo) = "raise" ->
                 [suspended |-> FALSE, rest |-> <<>>, nested |-> {},
                  flags |-> {flag}, raised |-> TRUE]
            [] Head(todo) = "delegate" ->
                 [r EXCEPT !.nested = @ \cup {GetAttr(flag, Delegated)},
                           !.flags = @ \cup {flag}]

\* What is left of a handler body after each of its awaits.
Suspensions(body) ==
  {SubSeq(body, i + 1, Len(body)) : i \in {j \in 1..Len(body) : body[j] = "await"}}

NotStarted == {<<"on_raw", cmd>> : cmd \in Commands}

ResolvePlaces ==
  NotStarted \cup UNION {Suspensions(HandlerBodies[m]) : m \in DOMAIN HandlerBodies}

resolveRest == <<RECONNECT_ON_ERROR, RECONNECT_MAX_ATTEMPTS, RECONNECT_DELAYED,
                 connection, conn_connected, reconnect_attempts, channels,
                 users, receive_buffer, apiLeft>>

\* The last step: top is what on_raw's own lookup returned, nested what the
\* lookups made by handler bodies (or by another task) returned, flags the
\* flag as the instructions of handler bodies found it.
ResolveEv(op, method, top, r) ==
  [op |-> op, method |-> method, top |-> top, nested |-> r.nested,
   flags |-> r.flags, raised |-> r.raised]

ResolveCommit(ts, flag, e, r) ==
  /\ tasks' = IF r.suspended THEN [ts EXCEPT ![r.rest] = @ + 1] ELSE ts
  /\ handler_top_level' = flag
  /\ ev' = e
  /\ UNCHANGED resolveRest
  /\ UNCHANGED poolVars

NoRun ==
  [suspended |-> FALSE, rest |-> <<>>, nested |-> {}, flags |-> {},
   raised |-> FALSE]

\* A connected client with no task.
InitResolve ==
  /\ RECONNECT_ON_ERROR = TRUE
  /\ RECONNECT_MAX_ATTEMPTS = DEFAULT_MAX_ATTEMPTS
  /\ RECONNECT_DELAYED = TRUE
  /\ connection = "conn"
  /\ conn_connected = TRUE
  /\ reconnect_attempts = 0
  /\ channels = EmptyStore
  /\ users = EmptyStore
  /\ receive_buffer = <<>>
  /\ handler_top_level = FALSE
  /\ tasks = [p \in ResolvePlaces |-> 0]
  /\ apiLeft = 0
  /\ ev = ResolveEv("init", <<>>, <<>>, NoRun)
  /\ pool = <<>>
  /\ net = <<>>
  /\ ready = <<>>
  /\ delivered = <<>>
  /\ extracted = <<>>
  /\ started = <<>>
  /\ hung = <<>>

\* on_data: a task is created for on_raw(message).
CreateOnRaw(cmd) ==
  /\ SumOver(tasks, ResolvePlaces) < MaxTasks
  /\ ResolveCommit([tasks EXCEPT ![<<"on_raw", cmd>>] = @ + 1],
                   handler_top_level,
                   ResolveEv("create", Method(cmd), <<>>, NoRun), NoRun)

\* An on_raw task starts: it resolves the handler and runs it up to the
\* handler's first await.
StartOnRaw(cmd) ==
  /\ tasks[<<"on_raw", cmd>>] > 0
  /\ LET look == TopLevelLookup(handler_top_level, Method(cmd))
         r == RunBody(look.flag, BodyOf(look.handler))
     IN ResolveCommit([tasks EXCEPT ![<<"on_raw", cmd>>] = @ - 1], look.flag,
                      ResolveEv("on_raw", Method(cmd), look.handler, r), r)

\* The await a handler is suspended in resolves: the handler goes on.
ResumeHandler(place) ==
  /\ tasks[place] > 0
  /\ LET r == RunBody(handler_top_level, place)
     IN ResolveCommit([tasks EXCEPT ![place] = @ - 1], handler_top_level,
                      ResolveEv("resume", <<>>, <<>>, r), r)

\* Another task of the client looks an attribute up on it.
OtherLookup(attr) ==
  LET found == GetAttr(handler_top_level, attr)
  IN ResolveCommit(tasks, handler_top_level,
                   ResolveEv("lookup", attr, <<>>,
                             [NoRun EXCEPT !.nested = {found},
                                           !.flags = {handler_top_level}]),
                   NoRun)

NextResolve ==
  \/ \E cmd \in Commands : CreateOnRaw(cmd)
  \/ \E cmd \in Commands : StartOnRaw(cmd)
  \/ \E place \in ResolvePlaces \ NotStarted : ResumeHandler(place)
  \/ \E attr \in {Delegated, Method("nope"), <<"frobnicate", "">>} : OtherLookup(attr)

SpecResolve == InitResolve /\ [][NextResolve]_vars

\* ------------------------------------------------ the session replacement
\* The lifecycle restricted to a consumer that only ever calls connect, a
\* peer that never closes and a transport that never fails a read: the only
\* teardown the consumer or the network causes is the expected disconnect
\* with which connect() ends the session it finds.
NextReplace ==
  \/ UserConnect
  \/ OnConnectCallback
  \/ LoopStart
  \/ \E place \in {"recv", "recv2"} : RecvData(place)
  \/ RecvCancelled
  \/ RecvTimeout
  \/ Wake
  \/ \E place \in {"connecting", "fresh", "fresh_old"} : ConnectOk(place)
  \/ \E place \in {"connecting", "fresh", "fresh_old"} : ConnectFail(place)
  \/ \E place \in {"handler", "hwait"} : HandlerRun(place)

SpecReplace == Init /\ [][NextReplace]_vars

\* ------------------------------------------------------ the session loss
\* The lifecycle of a client whose consumer connects once, first, and
\* afterwards only disconnects or reports socket errors: every session after
\* the first is one a reconnect established.
FirstConnect == apiLeft = MaxApiCalls /\ UserConnect

LaterDisconnect == apiLeft < MaxApiCalls /\ UserDisconnect

LaterDataError == apiLeft < MaxApiCalls /\ OnDataError

NextLoss ==
  \/ FirstConnect
  \/ LaterDisconnect
  \/ LaterDataError
  \/ OnConnectCallback
  \/ LoopStart
  \/ \E place \in {"recv", "recv2"} : RecvData(place)
  \/ \E place \in {"recv", "recv2"} : RecvClosed(place)
  \/ RecvCancelled
  \/ RecvTimeout
  \/ \E place \in {"recv", "recv2"} : RetryFails(place)
  \/ RecvReset
  \/ Wake
  \/ \E place \in {"connecting", "fresh"} : ConnectOk(place)
  \/ \E place \in {"connecting", "fresh"} : ConnectFail(place)
  \/ \E place \in {"handler", "hwait"} : HandlerRun(place)

SpecLoss == Init /\ [][NextLoss]_vars

\* ------------------------------------------------------------------ claims
\* on_disconnect was entered with expected=False in the last step.
UnexpectedCallback == ev.cb \in {"reconnecting", "giveup"}

\* C1: with reconnection enabled and a bounded maximum N, an unexpected
\* disconnect that finds the attempt counter at N (N reconnects were started
\* since the counter was last reset) starts no reconnect: the task that ran
\* the callback does not suspend in sleep or connect, the counter keeps its
\* value and the outcome is "giveup"; below N the outcome is "reconnecting"
\* and the counter is incremented.
C1_GiveUpAtMaximum ==
  (UnexpectedCallback /\ RECONNECT_ON_ERROR /\ RECONNECT_MAX_ATTEMPTS # None)
  => IF ev.before >= RECONNECT_MAX_ATTEMPTS
     THEN /\ ev.cb = "giveup"
          /\ ev.me = "none"
          /\ ev.after = ev.before
          /\ reconnect_attempts = ev.before
          /\ ev.delay = -1
     ELSE /\ ev.cb = "reconnecting"
          /\ ev.me = "sleep"
          /\ reconnect_attempts = ev.before + 1

C1_Witness ==
  /\ RECONNECT_ON_ERROR
  /\ RECONNECT_MAX_ATTEMPTS = DEFAULT_MAX_ATTEMPTS
  /\ ev.op = "closed"
  /\ ev.cb = "giveup"
  /\ ev.before = DEFAULT_MAX_ATTEMPTS

\* C2: with reconnection and delayed reconnection enabled, the delay waited
\* before the reconnect that follows an unexpected disconnect which found the
\* counter at k is 5, 5, 10, 30, 120, 600 for k = 0..5 and 600 for k >= 6.
C2_BackoffTable ==
  (ev.cb = "reconnecting" /\ RECONNECT_ON_ERROR /\ RECONNECT_DELAYED)
  => /\ ev.me = "sleep"
     /\ ev.delay = CASE ev.before = 0 -> 5
                     [] ev.before = 1 -> 5
                     [] ev.before = 2 -> 10
                     [] ev.before = 3 -> 30
                     [] ev.before = 4 -> 120
                     [] ev.before = 5 -> 600
                     [] OTHER -> 600

C2_Witness ==
  /\ RECONNECT_DELAYED
  /\ ev.cb = "reconnecting"
  /\ ev.before = 6
  /\ ev.delay = 600

\* C3 as stated: every unexpected disconnect is evaluated with the counter at
\* 0, because the connect that established the session reset it.
C3_Original == UnexpectedCallback => ev.before = 0

\* C3 as amended: on_connect and connect(reconnect=False) leave the counter
\* at 0; a reconnect (the wake-up of the backoff policy and the completion of
\* its connect) leaves the counter as it was.
C3_ResetOnConnectCallback ==
  /\ ev.op \in {"on_connect", "connect"} => reconnect_attempts = 0
  /\ ev.op \in {"wake", "connected"} => reconnect_attempts = ev.before

C3_Witness ==
  /\ ev.op = "on_connect"
  /\ ev.before = 2
  /\ reconnect_attempts = 0

\* C4: a disconnect that was expected, or any disconnect while
\* RECONNECT_ON_ERROR is off, leads to no reconnect: on_disconnect computes
\* no delay, does not sleep and leaves the counter unchanged; only a
\* connect() that made the disconnect itself goes on to connect.
C4_NoReconnect ==
  (ev.arg = "expected" \/ (ev.arg = "unexpected" /\ ~RECONNECT_ON_ERROR))
  => /\ ev.cb \in {"expected", "giveup"}
     /\ ev.delay = -1
     /\ ev.after = ev.before
     /\ ev.me # "sleep"
     /\ ev.op \notin {"connect", "wake"}
          => (ev.me = "none" /\ reconnect_attempts = ev.before)

C4_Witness ==
  /\ RECONNECT_ON_ERROR
  /\ ev.op = "disconnect"
  /\ ev.arg = "expected"
  /\ ev.cb = "expected"
  /\ ev.before = 1
  /\ RECONNECT_MAX_ATTEMPTS = DEFAULT_MAX_ATTEMPTS

\* C5: disconnect(expected) on a connected client tears the transport down
\* and resets channels, users and buffer before on_disconnect starts, and
\* on_disconnect receives the flag that was passed; on a client that is not
\* connected the call changes nothing and invokes no callback.
C5_Disconnect ==
  /\ ev.arg # "none"
       => /\ ev.wasConnected
          /\ ev.teardown
          /\ ev.clean
          /\ ev.arg = "expected" => ev.cb = "expected"
          /\ ev.arg = "unexpected" => ev.cb \in {"reconnecting", "giveup"}
  /\ (ev.op \in {"disconnect", "data_error"} /\ ~ev.wasConnected)
       => /\ ev.cb = "none"
          /\ ~ev.teardown
          /\ ev.same
  /\ (ev.op \in {"disconnect", "data_error"} /\ ev.wasConnected) => ev.arg # "none"

C5_Witness ==
  /\ ev.op = "data_error"
  /\ ev.arg = "unexpected"
  /\ ev.dirty
  /\ ev.clean
  /\ ev.cb = "reconnecting"

\* C6 as stated: when a connect(reconnect=False) returns, on the connection
\* it established, channels, users and buffer are empty and the counter is 0.
C6_Original ==
  ev.op = "connected_fresh"
  => /\ channels = EmptyStore
     /\ users = EmptyStore
     /\ receive_buffer = <<>>
     /\ reconnect_attempts = 0

\* C7 as stated: a read loop that ends on no data, on a failed retry or on a
\* reset of the transport, without a local disconnect having cancelled its
\* read, has invoked on_disconnect(expected=False).
C7_Original == ev.end \in {"lost", "raised"} => UnexpectedCallback

\* C8: a failure a handler raises is caught by on_raw; the step changes
\* neither the connection, the counter nor the buffer, ends no read loop,
\* tears nothing down, invokes no disconnect callback, and removes no task
\* but the on_raw task itself.
C8_HandlerFailureContained ==
  [][ev'.raised =>
       /\ ev'.caught
       /\ ev'.cb = "none"
       /\ ev'.end = "none"
       /\ ~ev'.teardown
       /\ connection' = connection
       /\ conn_connected' = conn_connected
       /\ reconnect_attempts' = reconnect_attempts
       /\ receive_buffer' = receive_buffer
       /\ \E p \in {"handler", "hwait"} : tasks' = [tasks EXCEPT ![p] = @ - 1]
     ]_vars

C8_Witness ==
  /\ ev.raised
  /\ ev.caught
  /\ conn_connected
  /\ tasks["recv"] = 1
  /\ tasks["handler"] = 1

\* The wire format, stated on the whole stream a client was given: the
\* terminators, the lines between them with their surrounding CR and LF
\* bytes removed, and what follows the last terminator.
RefTerminators(stream) ==
  {i \in 1..(Len(stream) - 1) : stream[i] = CR /\ stream[i + 1] = LF}

RefStrip(line) ==
  LET keep == {i \in 1..Len(line) : line[i] \notin {CR, LF}}
  IN IF keep = {} THEN <<>>
     ELSE SubSeq(line, CHOOSE i \in keep : \A j \in keep : i <= j,
                       CHOOSE i \in keep : \A j \in keep : i >= j)

RefLines(stream) ==
  LET P == RefTerminators(stream)
      pos(k) == CHOOSE i \in P : Cardinality({j \in P : j < i}) = k - 1
      first(k) == IF k = 1 THEN 1 ELSE pos(k - 1) + 2
  IN [k \in 1..Cardinality(P) |-> RefStrip(SubSeq(stream, first(k), pos(k) - 1))]

\* The complete messages of a stream: its lines that are messages.
RefIsMessage(line) == line # <<>> /\ \A i \in 1..Len(line) : line[i] # "x"

RefMessages(stream) == SelectSeq(RefLines(stream), RefIsMessage)

\* The messages of client c whose on_raw task is created and not yet started,
\* in the order the event loop will start them.
RECURSIVE PendingOf(_, _)
PendingOf(queue, c) ==
  IF queue = <<>> THEN <<>>
  ELSE IF Head(queue).kind = "on_raw" /\ Head(queue).client = c
       THEN <<Head(queue).data>> \o PendingOf(Tail(queue), c)
       ELSE PendingOf(Tail(queue), c)

\* C9 as stated: whatever the chunks recv returned, the messages extracted so
\* far are the complete messages of the stream given to on_data, each once
\* and in wire order; no complete line waits in the buffer while the loop
\* awaits the next read; and the handlers started so far, followed by the
\* on_raw tasks still queued, are the extracted messages in extraction order.
C9_Original ==
  \A c \in DOMAIN pool :
    /\ extracted[c] = RefMessages(delivered[c])
    /\ pool[c].loop = "recv" => RefTerminators(pool[c].receive_buffer) = {}
    /\ started[c] \o PendingOf(ready, c) = extracted[c]

\* Everything handed to a client is dispatched, and its read loop awaits the
\* next read.
AllServed ==
  /\ ready = <<>>
  /\ \A c \in DOMAIN pool :
       /\ started[c] = RefMessages(delivered[c])
       /\ pool[c].loop = "recv"

C11_RecordIffMember ==
  ev.op = "destroy_user"
  => \A n \in NickNames :
       /\ InSomeChannel(channels, n) => n \in DOMAIN users
       /\ (n \in DOMAIN users /\ ~InSomeChannel(channels, n)) => n \notin ev.attached

C11_Witness ==
  /\ ev.op = "destroy_user"
  /\ ev.nick = <<"n">>
  /\ ev.arg = "#c"
  /\ ev.raised = "none"
  /\ <<"n">> \notin DOMAIN users
  /\ DOMAIN channels = {"#c", "#d"}
  /\ channels["#c"].users = {<<"m">>}
  /\ channels["#d"].users = {}
  /\ <<"m">> \in DOMAIN users

\* C12 as stated: rename_user(old, new), new other than old, puts new in the
\* place of old in every channel that held old, and changes no other
\* membership and no channel that did not hold old.
C12_Original ==
  [][(ev'.op = "rename_user" /\ ev'.nick # ev'.arg)
     => /\ DOMAIN channels' = DOMAIN channels
        /\ \A c \in DOMAIN channels :
             IF ev'.nick \in channels[c].users
             THEN /\ ev'.arg \in channels'[c].users
                  /\ ev'.nick \notin channels'[c].users
                  /\ channels'[c].users \ {ev'.nick, ev'.arg}
                       = channels[c].users \ {ev'.nick, ev'.arg}
             ELSE channels'[c] = channels[c]
    ]_vars

\* C13 as stated: destroy_channel(name) on a known channel, whatever its
\* membership, leaves name unknown, leaves every other channel as it was,
\* removes the record of every member that was in no other channel, and
\* keeps the record of every member that is in another channel.
C13_Original ==
  [][(ev'.op = "destroy_channel" /\ ev'.arg \in DOMAIN channels)
     => /\ DOMAIN channels' = (DOMAIN channels) \ {ev'.arg}
        /\ \A c \in DOMAIN channels' : channels'[c] = channels[c]
        /\ \A n \in channels[ev'.arg].users :
             IF \E c \in (DOMAIN channels) \ {ev'.arg} : n \in channels[c].users
             THEN n \in DOMAIN users => (n \in DOMAIN users' /\ users'[n] = users[n])
             ELSE n \notin DOMAIN users'
    ]_vars

\* C14 as stated: after any sequence of store operations, with any
\* arguments, no nickname containing "." is a key of the user store.
C14_Original == \A n \in DOMAIN users : ~IsServerName(n)

\* C15 as stated: create_channel(name) inserts an unknown name with empty
\* membership and changes nothing else; on a name already present it leaves
\* the store, and so the channel's membership set, unchanged.
C15_Original ==
  [][ev'.op = "create_channel"
     => /\ users' = users
        /\ IF ev'.arg \in DOMAIN channels
           THEN channels' = channels
           ELSE /\ DOMAIN channels' = (DOMAIN channels) \cup {ev'.arg}
                /\ channels'[ev'.arg].users = {}
                /\ \A c \in DOMAIN channels : channels'[c] = channels[c]
    ]_vars

\* C19 as stated: after rename_user(old, new) where old has a record, new has
\* a record whose nickname is new and whose other fields are those of old's
\* record, and old has none unless old is new; where old has no record (and
\* new is a name create_user accepts), new has a fresh record.
C19_Original ==
  [][ev'.op = "rename_user"
     => IF ev'.nick \in DOMAIN users
        THEN /\ ev'.arg \in DOMAIN users'
             /\ users'[ev'.arg] = [users[ev'.nick] EXCEPT !.nickname = ev'.arg]
             /\ ev'.arg # ev'.nick => ev'.nick \notin DOMAIN users'
        ELSE ev'.arg \in ValidNicks
             => /\ ev'.arg \in DOMAIN users'
                /\ users'[ev'.arg] = CreateUser(EmptyStore, ev'.arg)[ev'.arg]
    ]_vars

\* C20 as stated: sync_user(nickname, metadata) returns normally; a valid
\* nickname without a record gets a record with the metadata merged into it;
\* an existing record takes the metadata's fields and keeps its other fields;
\* an empty or dotted nickname without a record leaves the store unchanged;
\* nothing else in the store changes.
C20_Original ==
  [][ev'.op = "sync_user"
     => /\ ev'.raised = "none"
        /\ channels' = channels
        /\ \A n \in (DOMAIN users) \ {ev'.nick} : n \in DOMAIN users' /\ users'[n] = users[n]
        /\ IF ev'.nick \in DOMAIN users
           THEN /\ DOMAIN users' = DOMAIN users
                /\ users'[ev'.nick] = Update(users[ev'.nick], ev'.arg)
           ELSE IF ev'.nick \in ValidNicks
           THEN /\ DOMAIN users' = (DOMAIN users) \cup {ev'.nick}
                /\ users'[ev'.nick]
                     = Update(CreateUser(EmptyStore, ev'.nick)[ev'.nick], ev'.arg)
           ELSE users' = users
    ]_vars

\* C16 as stated: after construction and after every add and remove, the
\* pooled clients are the clients with stored connect arguments; add puts the
\* client in both; remove of a pooled client takes it out of both and
\* schedules an expected disconnect for it.
C16_Original ==
  /\ pool.clients = DOMAIN pool.connect_args
  /\ ev.op = "connect"
       => (ev.client \in pool.clients /\ ev.client \in DOMAIN pool.connect_args)
  /\ (ev.op = "disconnect" /\ ev.pooled)
       => /\ ev.client \notin pool.clients
          /\ ev.client \notin DOMAIN pool.connect_args
          /\ ev.scheduled

\* C17: a timeout of the first read sends one PING and leaves the loop in one
\* more read, with no callback and no teardown; PING is sent at no other
\* point; data the second read returns goes to on_data and the loop awaits
\* the next first read; a failed retry (PING or second read timing out or
\* reset) reads nothing more: the client, still marked connected, tears the
\* transport down and runs on_disconnect(expected=False), and the loop ends.
C17_KeepaliveRetry ==
  /\ ev.op = "timeout"
       => /\ ev.place = "recv"
          /\ ev.pings = 1
          /\ ev.me = "recv2"
          /\ ev.cb = "none"
          /\ ~ev.teardown
          /\ ev.end = "none"
  /\ ev.pings # 0 => (ev.pings = 1 /\ ev.op \in {"timeout", "retry_failed"})
  /\ (ev.op = "data" /\ ev.place = "recv2")
       => /\ ev.pings = 0
          /\ ev.end = "codec" \/ (ev.me = "recv" /\ ev.end = "none")
  /\ ev.op = "retry_failed"
       => /\ ev.me \notin {"recv", "recv2"}
          /\ ev.end = "lost"
          /\ ev.wasConnected
          /\ ev.arg = "unexpected"
          /\ ev.teardown
          /\ UnexpectedCallback
          /\ ~conn_connected

C17_Witness ==
  /\ ev.op = "retry_failed"
  /\ ev.place = "recv2"
  /\ ev.pings = 0
  /\ ev.cb = "reconnecting"
  /\ ev.me = "sleep"

C21_Original ==
  /\ (ev.op = "connect" /\ ev.wasConnected)
       => /\ ev.teardown
          /\ ev.arg = "expected"
          /\ ev.cb = "expected"
  /\ ev.op = "cancelled"
       => /\ ~ev.teardown
          /\ ev.arg = "none"
          /\ ev.cb = "none"
          /\ ev.me = "none"
          /\ ev.after = -1

\* The steps in which a session is lost: the peer closed, the keepalive
\* retry failed, or a socket error was reported.
LossSteps == {"closed", "retry_failed", "data_error"}

\* Reconnect sequences under way: on_disconnect sleeping, or its
\* connect(reconnect=True) awaiting the transport.
ReconnectsInFlight ==
  tasks["sleep"] + tasks["connecting"] + tasks["connecting_old"]

\* C22 as stated: a teardown finds the transport up and on_disconnect runs
\* only with a teardown, so once per session; the counter is incremented, and
\* a reconnect begun, only in the step that detects a loss; at most one
\* reconnect is in flight.
C22_Original ==
  /\ ev.teardown => ev.wasConnected
  /\ ev.cb # "none" => ev.teardown
  /\ ev.cb = "reconnecting" => (ev.op \in LossSteps /\ ev.after = ev.before + 1)
  /\ ev.after > ev.before => ev.op \in LossSteps
  /\ ReconnectsInFlight <= 1

====
